---- MODULE Spec2Model ----
(***************************************************************************)
(* Model of the resilience workers of HTCCTV.                              *)
(*                                                                         *)
(*   ModbusReaderThread (core/modbus_handler.py)  - the field-bus poller   *)
(*   RTSPStreamThread   (streaming/rtsp_handler.py) - the stream ingestor  *)
(*                                                                         *)
(* Each worker is a thread: its run() loop is cut into steps at the        *)
(* places where the loop tests its stop flag, calls a blocking operation   *)
(* (open, read, sleep) or emits a signal; p_pc / s_pc hold the position.   *)
(* stop() runs on the caller's thread and is two steps: set the flag, and  *)
(* return from wait() once run() has returned.                             *)
(*                                                                         *)
(* Units: the poller's durations in seconds are kept in half-seconds (the  *)
(* floor of reconnect_backoff_start_s is 0.5 s), msleep arguments in       *)
(* milliseconds; the ingestor's clock in seconds.                          *)
(***************************************************************************)
EXTENDS Integers, Sequences, FiniteSets, TLC

VARIABLES
    \* ---- ModbusReaderThread: constructor arguments as stored by __init__
    count,                      \* self.count
    fail_threshold,             \* self.fail_threshold
    reconnect_backoff_start_s,  \* self.reconnect_backoff_start_s (half-seconds)
    reconnect_backoff_max_s,    \* self.reconnect_backoff_max_s   (half-seconds)
    \* ---- ModbusReaderThread: state
    p_running,                  \* self._running
    p_inst,                     \* self._inst: None or the identity of the handle
    port_open,                  \* the serial port of the poller's handle is open
    last_good,                  \* self._last_good
    fail_count,                 \* self._fail_count
    current_backoff_s,          \* self._current_backoff_s (half-seconds)
    p_pc,                       \* position of run()
    p_stop,                     \* position of the caller of stop()
    snapshot,                   \* payload of the last data_updated.emit
    \* ---- the serial endpoint (environment)
    stable,                     \* the endpoint opens and reads from now on
    \* ---- history of the poller, for stating the properties
    lastOp,                     \* outcome of the most recent connect / read
    regs,                       \* registers returned by the last successful read
    consecSoft,                 \* soft failures since the last success or connect
    goodSinceReset,             \* a read succeeded since the cache was last reset
    delay,                      \* last backoff msleep (ms) since a connect success
    prevDelay,                  \* the backoff msleep before that one, 0 if none
    slept,                      \* a backoff sleep was made since the last open attempt
    shared,                     \* the snapshot last published is the cache object itself
    torn,                       \* a published snapshot was changed after its publication
    moved,                      \* the last read changed the cache after a publication
    pubs,                       \* snapshots published in the current loop iteration
    \* ---- RTSPStreamThread
    s_running,                  \* self.running
    s_pc,                       \* position of run()
    s_stop,                     \* position of the caller of stop()
    cap_open,                   \* cap is an opened, unreleased capture handle
    start_time,                 \* start_time: None or a clock reading
    clock,                      \* time.time()
    s_signal,                   \* the last signal run() emitted
    s_frame,                    \* parity of the number of frames emitted
    pending,                    \* frame_received events queued for the widget
    \* ---- history of the ingestor, for stating the properties
    caps,                       \* capture handles opened and not yet released
    everOpened,                 \* an open has succeeded
    openedSinceTimer,           \* an open has succeeded since the timer was started
    failedEmits,                \* number of stream_failed.emit() made
    firstFailAt,                \* clock of the first failed open, while none succeeded
    timerFrom,                  \* what started the timer: "none", "open" or "read"
    lossAt,                     \* clock of the first failure since the last open
    \* ---- CameraRecorder (times in minutes since 00:00 of day 0)
    rotation_minutes,           \* self.rotation_minutes
    video_writer,               \* self.video_writer: "none", "open" or "failed"
    current_start,              \* self.current_start
    current_end,                \* self.current_end
    r_now,                      \* datetime.now()
    disk,                       \* the files under recordings/<camera name>/
    r_ops,                      \* calls of update_video_frame and stop made so far
    latest_values,              \* CameraRecorder.latest_values
    \* ---- CameraWidget
    selected_data_points,       \* self.selected_data_points
    open_writers,               \* VideoWriter objects opened and not yet released
    ui_since,                   \* time.time() - self._last_ui_update, up to UiPeriod
    \* ---- history of the recorder, for stating the properties
    r_ev,                       \* what the last call of update_video_frame or stop did
    \* ---- the application: main.py, ApplicationManager, MainWindow
    app_pc,                     \* "new", "window", "managed", "exec", "exited", "returned"
    rtsp_cameras,               \* the camera numbers whose config has an rtsp link
    widgets,                    \* the CameraWidget objects created so far
    finalize_log,               \* what run() logged when finalizing: "none", "error"
    \* ---- the widget's thread inside configure_camera or closeEvent
    gui_pc,                     \* where the handler is, "idle" outside a handler
    gui_todo,                   \* what configure_camera still has to restart
    orphans                     \* workers replaced while their run() had not returned

cfgVars == <<count, fail_threshold, reconnect_backoff_start_s, reconnect_backoff_max_s>>

pollerVars == <<p_running, p_inst, port_open, last_good, fail_count,
                current_backoff_s, p_pc, p_stop, snapshot, stable>>

histVars == <<lastOp, regs, consecSoft, goodSinceReset, delay, prevDelay,
              slept, shared, torn, moved, pubs>>

ingestorVars == <<s_running, s_pc, s_stop, cap_open, start_time, clock, s_signal,
                  s_frame, pending, caps, everOpened, openedSinceTimer,
                  failedEmits, firstFailAt, timerFrom, lossAt>>

recorderVars == <<rotation_minutes, video_writer, current_start, current_end,
                  r_now, disk, r_ops, latest_values, selected_data_points,
                  ui_since, r_ev, open_writers>>

guiVars == <<gui_pc, gui_todo, orphans>>

appVars == <<app_pc, rtsp_cameras, widgets, finalize_log, guiVars>>

vars == <<cfgVars, pollerVars, histVars, ingestorVars, recorderVars, appVars>>

(***************************************************************************)
(* Bounds of the model.                                                    *)
(***************************************************************************)
MaxCount == 2           \* count is drawn from 1..MaxCount
MaxReg == 1             \* a register holds 0..MaxReg
MaxThresholdArg == 3    \* the fail_threshold argument is drawn from 0..MaxThresholdArg
MaxFail == 4            \* soft failures in a row the model follows

None == 0
Unavailable == -1       \* the '--' sentinel; a register is never negative

Max(a, b) == IF a >= b THEN a ELSE b
Min(a, b) == IF a <= b THEN a ELSE b

\* Arguments the constructor is given for the backoff bounds (half-seconds):
\* below the 0.5 s floor, the defaults' start 2.0 s, a max below the start.
BackoffStartArgs == {0, 4}
BackoffMaxArgs == {2, 10}

(***************************************************************************)
(* ModbusReaderThread: pure pieces of __init__, _connect, _emit_offline    *)
(* and run.                                                                *)
(***************************************************************************)
\* __init__: fail_threshold = max(1, int(fail_threshold))
InitFailThreshold(arg) == Max(1, arg)

\* __init__: reconnect_backoff_start_s = max(0.5, start); 0.5 s is 1 half-second
InitBackoffStart(arg) == Max(1, arg)

\* __init__: reconnect_backoff_max_s = max(self.reconnect_backoff_start_s, max)
InitBackoffMax(start, arg) == Max(start, arg)

\* _emit_offline: {i + 1: "--" for i in range(self.count)}
OfflineSnapshotFromZero(n) == [i \in 0..(n - 1) |-> Unavailable]
OfflineSnapshot(n) == [i \in 1..n |-> Unavailable]

\* run: for i, v in enumerate(regs, start=1): self._last_good[i] = v
UpdateLastGoodFromZero(lg, r) ==
    [i \in (DOMAIN lg) \cup 0..(Len(r) - 1) |->
        IF i \in 0..(Len(r) - 1) THEN r[i + 1] ELSE lg[i]]
UpdateLastGood(lg, r) ==
    [i \in (DOMAIN lg) \cup 1..Len(r) |-> IF i \in 1..Len(r) THEN r[i] ELSE lg[i]]

\* run: the payload of a transient failure, dict(self._last_good)
RepublishedBlank(lg) == [i \in DOMAIN lg |-> Unavailable]
Republished(lg) == lg

\* run: if self._fail_count >= self.fail_threshold
ThresholdReachedStrict(fc, ft) == fc > ft
ThresholdReached(fc, ft) == fc >= ft

\* run: self._current_backoff_s = self.reconnect_backoff_start_s after a connect
BackoffAfterConnectKept(cur, start) == cur
BackoffAfterConnect(cur, start) == start

\* run: min(self._current_backoff_s * 2.0, self.reconnect_backoff_max_s)
NextBackoff(cur, max) == Min(cur * 2, max)

\* run: the argument of msleep, int(seconds * 1000), of a duration in half-seconds
Msleep(halves) == halves * 500

\* run: while self._running
InLoop(running) == running

\* run, lines 151-157: after a failed _connect() in the loop comes the backoff
AfterConnectFailRetry == "top"
AfterConnectFail == "backoff"

\* run, lines 182-195: a soft failure leaves self._inst alone
InstAfterSoftClosed(inst, fc, ft) == IF fc >= ft THEN None ELSE inst
InstAfterSoft(inst, fc, ft) == inst

\* dict(self._last_good), dict(offline): the copy is a new object, it does not
\* share the object it was copied from
ReferenceShares == TRUE
CopyShares == FALSE

\* run: if not self._inst
NeverConnects(inst) == FALSE
NeedsConnect(inst) == inst = None

\* _close_instrument: the finally clause leaves self._inst = None
InstAfterCloseKept(inst) == inst
InstAfterClose(inst) == None

\* run: the except clauses; "hard" is SerialException, "soft" any other Exception
CaughtSerialOnly(kind) == kind = "hard"
Caught(kind) == kind \in {"hard", "soft"}

\* The handle _connect stores on success.
Handle == 1

\* Outcomes the endpoint allows: once stable it opens and reads.
ConnectOutcomes == IF stable THEN {TRUE} ELSE BOOLEAN

\* read_registers on None raises AttributeError, which is an Exception ("soft").
ReadOutcomes(inst) ==
    IF inst = None THEN {"soft"}
    ELSE IF stable THEN {"ok"} ELSE {"ok", "soft", "hard"}

\* read_registers(base_reg, count) returns exactly count registers.
RegisterValues(n) == [1..n -> 0..MaxReg]

(***************************************************************************)
(* RTSPStreamThread: constants and pure pieces of run.                     *)
(***************************************************************************)
NoStartTime == -1       \* start_time = None
Budget == 60            \* if elapsed_time > 60
RetryDelay == 5         \* time.sleep(5)
MaxOpenTime == 30       \* longest time a failing cv2.VideoCapture(url) takes

\* Times a failing open attempt may take.
OpenTimes == {0, MaxOpenTime}

MaxPending == 2         \* queued frame_received events the model follows

\* run: if elapsed_time > 60
BudgetExceededAtOnce(elapsed) == elapsed >= 0
BudgetExceeded(elapsed) == elapsed > Budget

\* run: start_time = None once an open has succeeded
\* run, lines 39-40 and 68-69: if start_time is None: start_time = time.time()
TimerRestarted(st, now) == now
TimerStart(st, now) == IF st = NoStartTime THEN now ELSE st

TimerAfterOpenKept(st) == st
TimerAfterOpen(st) == NoStartTime

\* run: break after stream_failed.emit() leaves the outer loop
AfterGiveUpRetry == "sleep"
AfterGiveUp == "done"

\* run: cap.release() after the inner loop, on every way out of it
ReleasedCapsWhenRunning(n, running) == IF running THEN n - 1 ELSE n
ReleasedCaps(n, running) == n - 1

\* run: the inner loop's test, while self.running
InnerLoopForever(running) == TRUE
InnerLoop(running) == running

(***************************************************************************)
(* CameraRecorder: constants and pure pieces of __init__, _open_new_writer,*)
(* write_frame and stop.  A datetime is kept to the minute, the resolution *)
(* of the file names.                                                      *)
(***************************************************************************)
NoTime == -1            \* current_start = None, current_end = None
DayMinutes == 1440      \* minutes of a calendar day
LastHour == 23          \* replace(hour=23, ...)
LastMinute == 59        \* replace(..., minute=59)
MaxOps == 4             \* calls of update_video_frame and stop the model follows

\* rotation_minutes arguments: below the floor of 1, and the default 60.
RotationArgs == {0, 60}

\* Wall-clock times at which the recorder is constructed: 10:00, 22:30, 23:30
\* and 23:59 of day 0.
StartTimes == {600, 1350, 1410, 1439}

\* Minutes that pass before a call.
Steps == {0, 1, 29, 60}

\* __init__: self.rotation_minutes = max(1, rotation_minutes)
InitRotation(arg) == Max(1, arg)

\* datetime.date()
Date(t) == t \div DayMinutes

\* strftime('%H_%M')
HM(t) == <<(t % DayMinutes) \div 60, t % 60>>

\* start.replace(hour=23, minute=59)
DayEnd(t) == Date(t) * DayMinutes + LastHour * 60 + LastMinute

\* if end.date() != start.date(): end = start.replace(hour=23, minute=59)
NoCapAtDayEnd(start, end) == end
CapAtDayEnd(start, end) == IF Date(end) # Date(start) THEN DayEnd(start) ELSE end

\* write_frame: end = start + timedelta(minutes=self.rotation_minutes), capped
PlannedEnd(start, rot) == CapAtDayEnd(start, start + rot)

\* _get_date_folder and the file name: <DD-MM-YY>/<start>__<end>.avi
Path(today, start, end) == [day |-> Date(today), first |-> HM(start), last |-> HM(end)]

\* stop: the end label of new_name, actual_end.strftime('%H_%M')
StopEndLabelPlanned(planned, actual) == HM(planned)
StopEndLabel(planned, actual) == HM(actual)

\* _open_new_writer, lines 53-60: self.video_writer is the new VideoWriter
\* object whether or not it opened
WriterAfterOpenNone(ok) == IF ok THEN "open" ELSE "none"
WriterAfterOpen(ok) == IF ok THEN "open" ELSE "failed"

\* write_frame, lines 96-98: if self.video_writer: self.video_writer.release()
\* before the next segment is opened; n counts the writers that are open
NotReleasedOnRotate(n, writer) == n
ReleasedOnRotate(n, writer) == IF writer = "open" THEN n - 1 ELSE n

\* stop, line 150: if self.video_writer is not None:
StopActsAlways(writer) == TRUE
StopActsOn(writer) == writer # "none"

\* _open_new_writer(start, end) called at time today with the writer opening
\* (ok) or not: the segment, the writer and the files it leaves.
OpenNewWriter(start, end, ok, files, today) ==
    LET capped == CapAtDayEnd(start, end)
    IN  [writer |-> WriterAfterOpen(ok),
         start |-> start,
         end |-> capped,
         files |-> IF ok THEN files \cup {Path(today, start, capped)} ELSE files]

NoPath == [day |-> NoTime, first |-> <<>>, last |-> <<>>]

\* No segment: what precedes the first segment of a session.
NoSeg == [start |-> NoTime, end |-> NoTime]

\* A segment as recorded in the history: its planned interval and the
\* interval of the segment it follows in the session.
Opened(seg, prev) ==
    [start |-> seg.start, end |-> seg.end,
     after |-> [start |-> prev.start, end |-> prev.end]]

\* The frame buffer as the ingestor hands it over: no text drawn on it.
RawFrame == [label |-> FALSE, lines |-> <<>>]

\* update_video_frame, line 397: 0.1 s, in ticks of 0.05 s
UiPeriod == 2

\* update_video_frame, lines 397-399: the refresh is skipped if less than
\* 0.1 s have passed since the last one
RefreshAlways(elapsed) == TRUE
RefreshDue(elapsed) == ~(elapsed < UiPeriod)

\* update_video_frame, line 393: write_frame is called first, whatever the
\* rate limit decides afterwards
RecordedWhenShown(shown) == shown
Recorded(shown) == TRUE

\* write_frame, line 128: self.latest_values.get(dp['index'], '--')
GetZeroBased(values, i) ==
    IF (i - 1) \in DOMAIN values THEN values[i - 1] ELSE Unavailable
Get(values, i) == IF i \in DOMAIN values THEN values[i] ELSE Unavailable

\* write_frame, lines 125-139: one line for each checked data point, in order
RECURSIVE OverlayLines(_, _)
OverlayLines(points, values) ==
    IF points = <<>> THEN <<>>
    ELSE LET dp == Head(points)
             rest == OverlayLines(Tail(points), values)
         IN  IF dp.checked
             THEN <<[index |-> dp.index, value |-> Get(values, dp.index)]>> \o rest
             ELSE rest

\* write_frame, lines 106-141: the texts are drawn on frame.copy() and the
\* resize returns a new array; the buffer handed in is what it was
HandedAfterDrawInPlace(frame, drawn) == drawn
HandedAfterDraw(frame, drawn) == frame

\* The data-point selections the widget is followed with: indices 1 and 2,
\* the second of them absent from a snapshot of one register.
PointChoices ==
    {<<>>,
     <<[index |-> 1, checked |-> TRUE], [index |-> 2, checked |-> TRUE]>>,
     <<[index |-> 1, checked |-> FALSE], [index |-> 2, checked |-> TRUE]>>,
     <<[index |-> 2, checked |-> TRUE], [index |-> 1, checked |-> TRUE]>>}

\* Minutes and 0.05 s ticks that pass before a frame reaches the widget.
FrameSteps ==
    {[min |-> 0, ticks |-> 1], [min |-> 0, ticks |-> UiPeriod],
     [min |-> 60, ticks |-> UiPeriod]}

NoEvent ==
    [op |-> "none", at |-> NoTime, hadWriter |-> FALSE, segs |-> <<>>,
     first |-> NoTime, prevAt |-> NoTime, old |-> NoPath, new |-> NoPath,
     existed |-> FALSE, files |-> {}, log |-> "none",
     was |-> "none", wasEnd |-> NoTime, recorded |-> FALSE, wrote |-> FALSE,
     written |-> RawFrame, handed |-> RawFrame, shown |-> FALSE, elapsed |-> 0,
     snap |-> <<>>]

AllUnavailable(s) == \A i \in DOMAIN s : s[i] = Unavailable

NoneUnavailable(s) == \A i \in DOMAIN s : s[i] # Unavailable

(***************************************************************************)
(* Initial state: both threads constructed and started, as                 *)
(* CameraWidget.start_modbus_polling and start_camera_stream do.           *)
(***************************************************************************)
InitPoller ==
    /\ count \in 1..MaxCount
    /\ fail_threshold \in {InitFailThreshold(a) : a \in 0..MaxThresholdArg}
    /\ reconnect_backoff_start_s \in {InitBackoffStart(a) : a \in BackoffStartArgs}
    /\ reconnect_backoff_max_s \in
           {InitBackoffMax(reconnect_backoff_start_s, a) : a \in BackoffMaxArgs}
    /\ p_running = TRUE
    /\ p_inst = None
    /\ port_open = FALSE
    /\ last_good = OfflineSnapshot(count)
    /\ fail_count = 0
    /\ current_backoff_s = reconnect_backoff_start_s
    /\ p_pc = "init"
    /\ p_stop = "idle"
    /\ snapshot = <<>>
    /\ stable = FALSE
    /\ lastOp = "none"
    /\ regs = <<>>
    /\ consecSoft = 0
    /\ goodSinceReset = FALSE
    /\ delay = 0
    /\ prevDelay = 0
    /\ slept = FALSE
    /\ shared = FALSE
    /\ torn = FALSE
    /\ moved = FALSE
    /\ pubs = 0

InitIngestor ==
    /\ s_running = TRUE
    /\ s_pc = "outer"
    /\ s_stop = "idle"
    /\ cap_open = FALSE
    /\ start_time = NoStartTime
    /\ clock = 0
    /\ s_signal = "none"
    /\ s_frame = 0
    /\ pending = 0
    /\ caps = 0
    /\ everOpened = FALSE
    /\ openedSinceTimer = FALSE
    /\ timerFrom = "none"
    /\ lossAt = NoStartTime
    /\ failedEmits = 0
    /\ firstFailAt = NoStartTime

InitRecorder ==
    /\ rotation_minutes \in {InitRotation(a) : a \in RotationArgs}
    /\ video_writer = "none"
    /\ current_start = NoTime
    /\ current_end = NoTime
    /\ r_now \in StartTimes
    /\ disk = {}
    /\ r_ops = 0
    /\ latest_values = <<>>
    /\ selected_data_points \in PointChoices
    /\ ui_since = UiPeriod
    /\ r_ev = NoEvent
    /\ open_writers = 0

\* camera_controller.py, line 30: positions for 4 cameras
NumCameras == 4

Cameras == 1..NumCameras

\* main.py before ApplicationManager() is called: nothing is built yet.
InitApp ==
    /\ app_pc = "new"
    /\ rtsp_cameras \in SUBSET Cameras
    /\ widgets = <<>>
    /\ finalize_log = "none"

\* No handler of the widget is running.
NoTodo == [rtsp |-> FALSE, port |-> FALSE, link |-> FALSE]

InitGui ==
    /\ gui_pc = "idle"
    /\ gui_todo = NoTodo
    /\ orphans = [poller |-> 0, stream |-> 0]

\* The workers do not read the recorder's fields: they are followed with the
\* recorder built at 10:00 with the default rotation of 60 minutes.
RecorderDefault ==
    /\ rotation_minutes = InitRotation(60)
    /\ r_now = 600
    /\ selected_data_points = <<>>
    /\ rtsp_cameras = Cameras

Init == InitPoller /\ InitIngestor /\ InitRecorder /\ InitApp /\ InitGui /\ RecorderDefault

(***************************************************************************)
(* ModbusReaderThread.run                                                  *)
(***************************************************************************)
\* run, line 142: the initial self._connect(); its result is not tested.
InitialConnect ==
    /\ p_pc = "init"
    /\ \E ok \in ConnectOutcomes :
          /\ p_inst' = IF ok THEN Handle ELSE None
          /\ port_open' = ok
    /\ p_pc' = "top"
    /\ lastOp' = "initial"
    /\ slept' = FALSE
    /\ UNCHANGED <<shared, torn, moved, pubs>>
    /\ UNCHANGED <<appVars, recorderVars, cfgVars, p_running, last_good, fail_count, current_backoff_s,
                   p_stop, snapshot, stable, regs, consecSoft, goodSinceReset,
                   delay, prevDelay, ingestorVars>>

\* run, line 144: the loop test fails and run() returns.
LoopExit ==
    /\ p_pc = "top"
    /\ ~InLoop(p_running)
    /\ p_pc' = "done"
    /\ UNCHANGED <<appVars, recorderVars, cfgVars, p_running, p_inst, port_open, last_good, fail_count,
                   current_backoff_s, p_stop, snapshot, stable, histVars,
                   ingestorVars>>

\* run, lines 147-150 and 159-160: after a successful reconnect the branch
\* falls through to the try block, so the bulk read is the next statement.
AfterConnectOkInterval == "interval"
AfterConnectOk == "read"

\* run, lines 144-195: the data_updated emits of one pass through a branch.
\* The reconnect branch emits nothing itself (147-150); a failed reconnect
\* (152), a read (168), a hard failure (176) and a soft failure (188 or 192)
\* emit one snapshot each.
PublicationsEach(op) == 1
Publications(op) == IF op = "connect_ok" THEN 0 ELSE 1

\* run, line 144: publications so far in this iteration; a read made directly
\* after the reconnect (pc "read") continues the iteration that reconnected.
InIteration(pc, n) == IF pc = "read" THEN n ELSE 0

\* run, lines 145-150: not connected, and _connect() succeeds.
ReconnectOk ==
    /\ p_pc = "top"
    /\ InLoop(p_running)
    /\ NeedsConnect(p_inst)
    /\ TRUE \in ConnectOutcomes
    /\ p_inst' = Handle
    /\ port_open' = TRUE
    /\ fail_count' = 0
    /\ current_backoff_s' = BackoffAfterConnect(current_backoff_s, reconnect_backoff_start_s)
    /\ p_pc' = AfterConnectOk
    /\ lastOp' = "connect_ok"
    /\ pubs' = Publications("connect_ok")
    /\ consecSoft' = 0
    /\ delay' = 0
    /\ prevDelay' = 0
    /\ slept' = FALSE
    /\ UNCHANGED <<shared, torn, moved>>
    /\ UNCHANGED <<appVars, recorderVars, cfgVars, p_running, last_good, p_stop, snapshot, stable, regs,
                   goodSinceReset, ingestorVars>>

\* run, lines 151-153: not connected, _connect() fails, _emit_offline().
ReconnectFail ==
    /\ p_pc = "top"
    /\ InLoop(p_running)
    /\ NeedsConnect(p_inst)
    /\ FALSE \in ConnectOutcomes
    /\ p_inst' = None
    /\ last_good' = OfflineSnapshot(count)
    /\ snapshot' = OfflineSnapshot(count)
    /\ p_pc' = AfterConnectFail
    /\ lastOp' = "connect_fail"
    /\ pubs' = Publications("connect_fail")
    /\ consecSoft' = 0
    /\ goodSinceReset' = FALSE
    /\ slept' = FALSE
    /\ shared' = CopyShares
    /\ moved' = FALSE
    /\ UNCHANGED torn
    /\ UNCHANGED <<appVars, recorderVars, cfgVars, p_running, port_open, fail_count, current_backoff_s,
                   p_stop, stable, regs, delay, prevDelay, ingestorVars>>

\* run, lines 154-157 and 178-180: msleep(backoff), double it, continue.
SleepBackoff ==
    /\ p_pc = "backoff"
    /\ prevDelay' = delay
    /\ delay' = Msleep(current_backoff_s)
    /\ current_backoff_s' = NextBackoff(current_backoff_s, reconnect_backoff_max_s)
    /\ p_pc' = "top"
    /\ slept' = TRUE
    /\ UNCHANGED <<shared, torn, moved, pubs>>
    /\ UNCHANGED <<appVars, recorderVars, cfgVars, p_running, p_inst, port_open, last_good, fail_count,
                   p_stop, snapshot, stable, lastOp, regs, consecSoft,
                   goodSinceReset, ingestorVars>>

\* The bulk read of lines 160-161 is reached from the loop test with a handle,
\* or directly after a successful reconnect.
AtRead ==
    \/ p_pc = "read"
    \/ p_pc = "top" /\ InLoop(p_running) /\ ~NeedsConnect(p_inst)

\* run, lines 161-168: the read succeeds.
ReadSuccess ==
    /\ AtRead
    /\ "ok" \in ReadOutcomes(p_inst)
    /\ \E r \in RegisterValues(count) :
          /\ regs' = r
          /\ last_good' = UpdateLastGood(last_good, r)
    /\ fail_count' = 0
    /\ snapshot' = last_good'
    /\ p_pc' = "interval"
    /\ lastOp' = "ok"
    /\ pubs' = InIteration(p_pc, pubs) + Publications("ok")
    /\ consecSoft' = 0
    /\ goodSinceReset' = TRUE
    /\ moved' = (snapshot # <<>> /\ last_good' # snapshot)
    /\ torn' = (torn \/ (shared /\ last_good' # snapshot))
    /\ shared' = CopyShares
    /\ UNCHANGED slept
    /\ UNCHANGED <<appVars, recorderVars, cfgVars, p_running, p_inst, port_open, current_backoff_s,
                   p_stop, stable, delay, prevDelay, ingestorVars>>

\* run, lines 172-177: SerialException; _close_instrument(), _emit_offline().
\* _close_instrument closes the port (serial.close(), or, when the flush before
\* it raises, the drop of the only reference to the handle in its finally).
ReadHard ==
    /\ AtRead
    /\ "hard" \in ReadOutcomes(p_inst)
    /\ IF Caught("hard")
       THEN /\ p_inst' = InstAfterClose(p_inst)
            /\ port_open' = FALSE
            /\ last_good' = OfflineSnapshot(count)
            /\ snapshot' = OfflineSnapshot(count)
            /\ p_pc' = "backoff"
            /\ shared' = CopyShares
            /\ moved' = FALSE
       ELSE /\ p_pc' = "done"
            /\ UNCHANGED <<p_inst, port_open, last_good, snapshot, shared, moved>>
    /\ lastOp' = "hard"
    /\ pubs' = InIteration(p_pc, pubs) + (IF Caught("hard") THEN Publications("hard") ELSE 0)
    /\ consecSoft' = 0
    /\ goodSinceReset' = FALSE
    /\ UNCHANGED <<slept, torn>>
    /\ UNCHANGED <<appVars, recorderVars, cfgVars, p_running, fail_count, current_backoff_s, p_stop,
                   stable, regs, delay, prevDelay, ingestorVars>>

\* run, lines 182-192: any other Exception; count it, go offline at the threshold.
ReadSoft ==
    /\ AtRead
    /\ "soft" \in ReadOutcomes(p_inst)
    /\ fail_count < MaxFail
    /\ IF Caught("soft")
       THEN /\ fail_count' = fail_count + 1
            /\ IF ThresholdReached(fail_count', fail_threshold)
               THEN /\ last_good' = OfflineSnapshot(count)
                    /\ snapshot' = OfflineSnapshot(count)
               ELSE /\ snapshot' = Republished(last_good)
                    /\ last_good' = last_good
            /\ p_inst' = InstAfterSoft(p_inst, fail_count', fail_threshold)
            /\ port_open' = (port_open /\ p_inst' # None)
            /\ shared' = CopyShares
            /\ moved' = FALSE
            /\ p_pc' = "interval"
       ELSE /\ p_pc' = "done"
            /\ UNCHANGED <<fail_count, last_good, snapshot, p_inst, port_open,
                           shared, moved>>
    /\ lastOp' = "soft"
    /\ pubs' = InIteration(p_pc, pubs) + (IF Caught("soft") THEN Publications("soft") ELSE 0)
    /\ consecSoft' = consecSoft + 1
    /\ goodSinceReset' = (goodSinceReset /\ consecSoft' < fail_threshold)
    /\ UNCHANGED <<appVars, recorderVars, cfgVars, p_running, current_backoff_s,
                   p_stop, stable, regs, delay, prevDelay, slept, torn, ingestorVars>>

\* run, lines 169-170 and 194-195: msleep(interval_s), continue.
SleepInterval ==
    /\ p_pc = "interval"
    /\ p_pc' = "top"
    /\ UNCHANGED <<appVars, recorderVars, cfgVars, p_running, p_inst, port_open, last_good, fail_count,
                   current_backoff_s, p_stop, snapshot, stable, histVars,
                   ingestorVars>>

PollerStep ==
    \/ InitialConnect
    \/ LoopExit
    \/ ReconnectOk
    \/ ReconnectFail
    \/ SleepBackoff
    \/ ReadSuccess
    \/ ReadHard
    \/ ReadSoft
    \/ SleepInterval

(***************************************************************************)
(* ModbusReaderThread.stop, on the caller's thread.                        *)
(***************************************************************************)
\* stop, line 79: self._running = False; the caller then blocks in wait().
StopRequest ==
    /\ p_stop = "idle"
    /\ p_running' = FALSE
    /\ p_stop' = "waiting"
    /\ UNCHANGED <<appVars, recorderVars, cfgVars, p_inst, port_open, last_good, fail_count,
                   current_backoff_s, p_pc, snapshot, stable, histVars,
                   ingestorVars>>

\* stop, line 80: wait() returns once run() has returned.
StopReturn ==
    /\ p_stop = "waiting"
    /\ p_pc = "done"
    /\ p_stop' = "returned"
    /\ UNCHANGED <<appVars, recorderVars, cfgVars, p_running, p_inst, port_open, last_good, fail_count,
                   current_backoff_s, p_pc, snapshot, stable, histVars,
                   ingestorVars>>

\* The endpoint comes back for good: from now on it opens and reads.
Stabilize ==
    /\ ~stable
    /\ stable' = TRUE
    /\ UNCHANGED <<appVars, recorderVars, cfgVars, p_running, p_inst, port_open, last_good, fail_count,
                   current_backoff_s, p_pc, p_stop, snapshot, histVars,
                   ingestorVars>>

(***************************************************************************)
(* RTSPStreamThread.run.  Only differences clock - start_time are read, so *)
(* the clock's origin is moved to 0 whenever the timer is cleared.         *)
(***************************************************************************)
\* run, line 34: the outer loop test fails and run() returns.
OuterExit ==
    /\ s_pc = "outer"
    /\ ~s_running
    /\ s_pc' = "done"
    /\ UNCHANGED <<appVars, recorderVars, cfgVars, pollerVars, histVars, s_running, s_stop, cap_open,
                   start_time, clock, s_signal, s_frame, pending, caps,
                   everOpened, openedSinceTimer, failedEmits, firstFailAt, timerFrom, lossAt>>

\* run, lines 35-50: the open fails; start the timer, give up or retry.
OpenFail ==
    /\ s_pc = "outer"
    /\ s_running
    /\ \E d \in OpenTimes : clock' = clock + d
    /\ start_time' = TimerStart(start_time, clock')
    /\ timerFrom' = IF timerFrom = "none" THEN "open" ELSE timerFrom
    /\ lossAt' = IF timerFrom = "none" THEN clock' ELSE lossAt
    /\ IF BudgetExceeded(clock' - start_time')
       THEN /\ s_signal' = "failed"
            /\ failedEmits' = failedEmits + 1
            /\ s_pc' = AfterGiveUp
       ELSE /\ s_signal' = "reconnecting"
            /\ failedEmits' = failedEmits
            /\ s_pc' = "sleep"
    /\ openedSinceTimer' = (openedSinceTimer /\ start_time # NoStartTime)
    /\ firstFailAt' = IF ~everOpened /\ firstFailAt = NoStartTime
                      THEN clock' ELSE firstFailAt
    /\ UNCHANGED <<appVars, recorderVars, cfgVars, pollerVars, histVars, s_running, s_stop, cap_open,
                   s_frame, pending, caps, everOpened>>

\* run, lines 35-53: the open succeeds; clear the timer.
OpenSuccess ==
    /\ s_pc = "outer"
    /\ s_running
    /\ cap_open' = TRUE
    /\ start_time' = TimerAfterOpen(start_time)
    /\ clock' = 0
    /\ s_pc' = "inner"
    /\ caps' = caps + 1
    /\ everOpened' = TRUE
    /\ openedSinceTimer' = TRUE
    /\ firstFailAt' = NoStartTime
    /\ timerFrom' = "none"
    /\ lossAt' = NoStartTime
    /\ UNCHANGED <<appVars, recorderVars, cfgVars, pollerVars, histVars, s_running, s_stop, s_signal,
                   s_frame, pending, failedEmits>>

\* run, lines 55-58: cap.read() returns a frame, frame_received.emit(frame).
\* run() executes on the worker thread and the connected slot belongs to the
\* widget, which lives on the GUI thread: the emit queues an event and returns.
FrameRead ==
    /\ s_pc = "inner"
    /\ InnerLoop(s_running)
    /\ pending < MaxPending
    /\ s_signal' = "frame"
    /\ s_frame' = 1 - s_frame
    /\ pending' = pending + 1
    /\ UNCHANGED <<appVars, recorderVars, cfgVars, pollerVars, histVars, s_running, s_pc, s_stop,
                   cap_open, start_time, clock, caps, everOpened,
                   openedSinceTimer, failedEmits, firstFailAt, timerFrom, lossAt>>

\* run, lines 55-61: cap.read() fails, break.
ReadFail ==
    /\ s_pc = "inner"
    /\ InnerLoop(s_running)
    /\ s_pc' = "release"
    /\ UNCHANGED <<appVars, recorderVars, cfgVars, pollerVars, histVars, s_running, s_stop, cap_open,
                   start_time, clock, s_signal, s_frame, pending, caps,
                   everOpened, openedSinceTimer, failedEmits, firstFailAt, timerFrom, lossAt>>

\* run, line 55: the inner loop test fails.
InnerExit ==
    /\ s_pc = "inner"
    /\ ~InnerLoop(s_running)
    /\ s_pc' = "release"
    /\ UNCHANGED <<appVars, recorderVars, cfgVars, pollerVars, histVars, s_running, s_stop, cap_open,
                   start_time, clock, s_signal, s_frame, pending, caps,
                   everOpened, openedSinceTimer, failedEmits, firstFailAt, timerFrom, lossAt>>

\* run, lines 63-69: cap.release(); if still running, signal and start the timer.
Release ==
    /\ s_pc = "release"
    /\ cap_open' = FALSE
    /\ caps' = ReleasedCaps(caps, s_running)
    /\ IF s_running
       THEN /\ s_signal' = "reconnecting"
            /\ start_time' = TimerStart(start_time, clock)
            /\ timerFrom' = IF timerFrom = "none" THEN "read" ELSE timerFrom
            /\ lossAt' = IF timerFrom = "none" THEN clock ELSE lossAt
            /\ openedSinceTimer' = (openedSinceTimer /\ start_time # NoStartTime)
            /\ s_pc' = "sleep"
       ELSE /\ s_pc' = "outer"
            /\ UNCHANGED <<s_signal, start_time, openedSinceTimer, timerFrom, lossAt>>
    /\ UNCHANGED <<appVars, recorderVars, cfgVars, pollerVars, histVars, s_running, s_stop, clock,
                   s_frame, pending, everOpened, failedEmits, firstFailAt>>

\* run, lines 49-50 and 70: time.sleep(5), back to the outer loop test.
RetrySleep ==
    /\ s_pc = "sleep"
    /\ clock' = clock + RetryDelay
    /\ s_pc' = "outer"
    /\ UNCHANGED <<appVars, recorderVars, cfgVars, pollerVars, histVars, s_running, s_stop, cap_open,
                   start_time, s_signal, s_frame, pending, caps, everOpened,
                   openedSinceTimer, failedEmits, firstFailAt, timerFrom, lossAt>>

IngestorStep ==
    \/ OuterExit
    \/ OpenFail
    \/ OpenSuccess
    \/ FrameRead
    \/ ReadFail
    \/ InnerExit
    \/ Release
    \/ RetrySleep

\* RTSPStreamThread.stop, line 76: self.running = False; then wait().
StreamStopRequest ==
    /\ s_stop = "idle"
    /\ s_running' = FALSE
    /\ s_stop' = "waiting"
    /\ UNCHANGED <<appVars, recorderVars, cfgVars, pollerVars, histVars, s_pc, cap_open, start_time,
                   clock, s_signal, s_frame, pending, caps, everOpened,
                   openedSinceTimer, failedEmits, firstFailAt, timerFrom, lossAt>>

\* RTSPStreamThread.stop, line 77: wait() returns once run() has returned.
StreamStopReturn ==
    /\ s_stop = "waiting"
    /\ s_pc = "done"
    /\ s_stop' = "returned"
    /\ UNCHANGED <<appVars, recorderVars, cfgVars, pollerVars, histVars, s_running, s_pc, cap_open,
                   start_time, clock, s_signal, s_frame, pending, caps,
                   everOpened, openedSinceTimer, failedEmits, firstFailAt, timerFrom, lossAt>>

\* The widget's thread runs one handler at a time: a queued event is taken
\* only when no handler is running, before or after the close.
GuiFree(pc) == pc \in {"idle", "closed"}

\* The widget's thread takes one queued frame_received event and runs the slot
\* CameraWidget.update_video_frame; what the slot does to the recorder is
\* WriteFrame below, which takes frames at any time.
DeliverFrame ==
    /\ GuiFree(gui_pc)
    /\ pending > 0
    /\ pending' = pending - 1
    /\ UNCHANGED <<appVars, recorderVars, cfgVars, pollerVars, histVars, s_running, s_pc, s_stop,
                   cap_open, start_time, clock, s_signal, s_frame, caps,
                   everOpened, openedSinceTimer, failedEmits, firstFailAt, timerFrom, lossAt>>

Next ==
    \/ InitialConnect
    \/ LoopExit
    \/ ReconnectOk
    \/ ReconnectFail
    \/ SleepBackoff
    \/ ReadSuccess
    \/ ReadHard
    \/ ReadSoft
    \/ SleepInterval
    \/ StopRequest
    \/ StopReturn
    \/ Stabilize

Spec == Init /\ [][Next]_vars

\* The poller under the fairness of its thread: run() keeps being scheduled.
LiveSpec == Init /\ [][Next]_vars /\ WF_vars(PollerStep)

\* Both workers of one camera unit, each thread scheduled fairly.  The stop
\* flags are independent of the poller's data and tuning, so one register is
\* polled with the smallest threshold and backoff bounds.
PollerSmallest ==
    /\ count = 1
    /\ fail_threshold = InitFailThreshold(0)
    /\ reconnect_backoff_start_s = InitBackoffStart(0)
    /\ reconnect_backoff_max_s = InitBackoffMax(reconnect_backoff_start_s, 2)

InitCancel == Init /\ PollerSmallest

NextCancel ==
    \/ PollerStep
    \/ StopRequest
    \/ StopReturn
    \/ IngestorStep
    \/ StreamStopRequest
    \/ StreamStopReturn
    \/ DeliverFrame

SpecCancel ==
    InitCancel /\ [][NextCancel]_vars /\ WF_vars(PollerStep) /\ WF_vars(IngestorStep)

(***************************************************************************)
(* CameraRecorder, called from the widget's thread.                        *)
(***************************************************************************)
\* write_frame, lines 84-103, called at time now; ok1 and ok2 tell whether
\* the writers it opens open.  The result: the writer, the segment, the files
\* and the segments opened by the call.
WriteFrame(now, ok1, ok2) ==
    LET held == [writer |-> video_writer, start |-> current_start,
                 end |-> current_end, files |-> disk]
        \* lines 87-92: no writer, open the first segment at now
        s1 == IF video_writer = "none"
              THEN OpenNewWriter(now, PlannedEnd(now, rotation_minutes), ok1, disk, now)
              ELSE held
        \* lines 95-103: now has reached the planned end, rotate
        s2 == IF now >= s1.end
              THEN OpenNewWriter(s1.end, PlannedEnd(s1.end, rotation_minutes),
                                 ok2, s1.files, now)
              ELSE s1
        opened == (IF video_writer = "none" THEN <<Opened(s1, NoSeg)>> ELSE <<>>)
                  \o (IF now >= s1.end THEN <<Opened(s2, s1)>> ELSE <<>>)
        \* the VideoWriter objects open and not released after each part
        h1 == IF video_writer = "none" /\ s1.writer = "open"
              THEN open_writers + 1 ELSE open_writers
        h2 == IF now >= s1.end
              THEN ReleasedOnRotate(h1, s1.writer)
                   + (IF s2.writer = "open" THEN 1 ELSE 0)
              ELSE h1
    IN  [writer |-> s2.writer, start |-> s2.start, end |-> s2.end,
         files |-> s2.files, opened |-> opened, handles |-> h2]

\* CameraWidget.update_video_frame for a frame that arrives dt minutes and
\* ticks 0.05 s after the last call: recorder.write_frame (lines 72-146 of
\* recorder.py), then the rate-limited refresh of the display.  What the
\* slot does to the widget and its recorder.
VideoFrameSlot(dt, ticks, ok1, ok2) ==
    LET now == r_now + dt
        elapsed == Min(ui_since + ticks, UiPeriod)
        shown == RefreshDue(elapsed)
        rec == Recorded(shown)
        w == WriteFrame(now, ok1, ok2)
        drawn == [label |-> TRUE,
                  lines |-> OverlayLines(selected_data_points, latest_values)]
    IN  /\ r_ops < MaxOps
        /\ r_ops' = r_ops + 1
        /\ r_now' = now
        /\ IF rec
           THEN /\ video_writer' = w.writer
                /\ current_start' = w.start
                /\ current_end' = w.end
                /\ disk' = w.files
                /\ open_writers' = w.handles
           ELSE UNCHANGED <<video_writer, current_start, current_end, disk,
                            open_writers>>
        /\ ui_since' = IF shown THEN 0 ELSE elapsed
        /\ r_ev' = [op |-> "write", at |-> now,
                    hadWriter |-> video_writer # "none",
                    segs |-> IF rec THEN w.opened ELSE <<>>,
                    first |-> IF video_writer = "none" THEN now ELSE r_ev.first,
                    prevAt |-> IF video_writer = "none" THEN NoTime ELSE r_ev.at,
                    old |-> NoPath, new |-> NoPath, existed |-> FALSE,
                    files |-> disk, log |-> "none",
                    was |-> video_writer, wasEnd |-> current_end,
                    recorded |-> rec,
                    wrote |-> rec /\ w.writer = "open",
                    written |-> IF rec /\ w.writer = "open" THEN drawn ELSE RawFrame,
                    handed |-> IF rec THEN HandedAfterDraw(RawFrame, drawn) ELSE RawFrame,
                    shown |-> shown, elapsed |-> elapsed, snap |-> latest_values]
        /\ UNCHANGED <<rotation_minutes, latest_values, selected_data_points,
                       cfgVars, pollerVars, histVars, appVars>>

\* update_video_frame called with a frame, the ingestor left aside.
UpdateVideoFrame(dt, ticks, ok1, ok2) ==
    VideoFrameSlot(dt, ticks, ok1, ok2) /\ UNCHANGED ingestorVars

\* Frames that arrive whole minutes apart.
RecorderWriteFrame ==
    \E dt \in Steps : \E ok1, ok2 \in BOOLEAN : UpdateVideoFrame(dt, UiPeriod, ok1, ok2)

\* Frames that arrive within the rate limit of the display, or an hour apart.
WidgetFrame ==
    \E st \in FrameSteps : \E ok1, ok2 \in BOOLEAN :
        UpdateVideoFrame(st.min, st.ticks, ok1, ok2)

\* CameraWidget.on_modbus_data, lines 384-386: the slot of data_updated hands
\* the snapshot to recorder.update_data_points, which keeps it.
OnModbusData ==
    \E values \in {OfflineSnapshot(count)} \cup RegisterValues(count) :
        /\ latest_values' = values
        /\ UNCHANGED <<rotation_minutes, video_writer, current_start, current_end,
                       r_now, disk, r_ops, selected_data_points, ui_since, r_ev,
                       open_writers, cfgVars, pollerVars, histVars, ingestorVars, appVars>>

\* stop, lines 148-174, called dt minutes after the last call; renameOk tells
\* whether old_path.rename(new_path) succeeds or raises.  What the call does
\* to the recorder.
RecorderStopCall ==
    \E dt \in Steps : \E renameOk \in BOOLEAN :
        LET now == r_now + dt
            old == Path(now, current_start, current_end)
            new == [old EXCEPT !.last = StopEndLabel(current_end, now)]
        IN  /\ r_ops < MaxOps
            /\ r_ops' = r_ops + 1
            /\ r_now' = now
            /\ IF StopActsOn(video_writer)
               THEN /\ video_writer' = "none"
                    /\ open_writers' = IF video_writer = "open"
                                       THEN open_writers - 1 ELSE open_writers
                    /\ disk' = IF old \in disk /\ renameOk
                               THEN (disk \ {old}) \cup {new} ELSE disk
                    /\ r_ev' = [op |-> "stop", at |-> now,
                                hadWriter |-> video_writer # "none",
                                segs |-> <<>>, first |-> NoTime, prevAt |-> NoTime,
                                old |-> old, new |-> new, existed |-> old \in disk,
                                files |-> disk,
                                log |-> IF old \notin disk THEN "missing"
                                        ELSE IF renameOk THEN "finalized"
                                        ELSE "rename_failed",
                                was |-> video_writer, wasEnd |-> current_end,
                                recorded |-> FALSE, wrote |-> FALSE,
                                written |-> RawFrame, handed |-> RawFrame,
                                shown |-> FALSE, elapsed |-> 0, snap |-> <<>>]
               ELSE /\ r_ev' = [NoEvent EXCEPT !.op = "stop", !.at = now, !.files = disk]
                    /\ UNCHANGED <<video_writer, disk, open_writers>>
            /\ UNCHANGED <<rotation_minutes, current_start, current_end,
                           latest_values, selected_data_points, ui_since, cfgVars,
                           app_pc, rtsp_cameras, widgets, finalize_log>>

\* recorder.stop() called on its own, the workers and the widget left aside.
RecorderStop ==
    RecorderStopCall /\ UNCHANGED <<pollerVars, histVars, ingestorVars, guiVars>>

NextRecorder ==
    \/ RecorderWriteFrame
    \/ RecorderStop

\* The recorder alone, frames and stops arriving at any time.
InitRecording ==
    /\ InitPoller /\ InitIngestor /\ InitRecorder /\ InitApp /\ InitGui /\ PollerSmallest
    /\ selected_data_points = <<>>
    /\ rtsp_cameras = Cameras

SpecRecorder == InitRecording /\ [][NextRecorder]_vars

\* One camera widget with its recorder: frames and snapshots reach its slots
\* in any order.
NextWidget ==
    \/ WidgetFrame
    \/ OnModbusData
    \/ RecorderStop

InitWidget ==
    /\ InitPoller /\ InitIngestor /\ InitRecorder /\ InitApp /\ InitGui /\ PollerSmallest
    /\ rotation_minutes = InitRotation(60)
    /\ r_now = 600
    /\ rtsp_cameras = Cameras

SpecWidget == InitWidget /\ [][NextWidget]_vars

(***************************************************************************)
(* The application: main.py, ApplicationManager, MainWindow and            *)
(* CameraController.  A widget is followed by what it owns: its poller,    *)
(* its ingestor if an rtsp link is configured, and its recorder's writer.  *)
(***************************************************************************)
\* CameraController.__init__ and setup_cameras: one CameraWidget per position,
\* named "Camera i"; CameraWidget.__init__ builds the recorder and starts the
\* stream (if an rtsp link is configured) and the poller.
SetupCameras(controller) ==
    [i \in Cameras |->
        [name |-> i, controller |-> controller, poller |-> TRUE,
         stream |-> i \in rtsp_cameras, writer |-> "none"]]

\* ApplicationManager.__init__, line 22: MainWindow(), whose __init__ ends by
\* building a CameraController (main_window.py, line 64).
MainWindowInit ==
    /\ app_pc = "new"
    /\ widgets' = widgets \o SetupCameras(1)
    /\ app_pc' = "window"
    /\ UNCHANGED <<rtsp_cameras, finalize_log, cfgVars, pollerVars, histVars,
                   ingestorVars, recorderVars, guiVars>>

\* ApplicationManager.__init__, lines 25-26: a CameraController of its own on
\* the same window, stored as main_window.camera_controller.
ManagerInit ==
    /\ app_pc = "window"
    /\ widgets' = widgets \o SetupCameras(2)
    /\ app_pc' = "managed"
    /\ UNCHANGED <<rtsp_cameras, finalize_log, cfgVars, pollerVars, histVars,
                   ingestorVars, recorderVars, guiVars>>

\* ApplicationManager.run, lines 33-36: the event loop starts.
RunExec ==
    /\ app_pc = "managed"
    /\ app_pc' = "exec"
    /\ UNCHANGED <<rtsp_cameras, widgets, finalize_log, cfgVars, pollerVars, histVars,
                   ingestorVars, recorderVars, guiVars>>

\* In the event loop a widget with a stream gets its first frame:
\* update_video_frame, write_frame opens a segment.
FirstFrame ==
    /\ app_pc = "exec"
    /\ \E w \in DOMAIN widgets :
          /\ widgets[w].stream
          /\ widgets[w].writer = "none"
          /\ widgets' = [widgets EXCEPT ![w].writer = "open"]
    /\ UNCHANGED <<app_pc, rtsp_cameras, finalize_log, cfgVars, pollerVars, histVars,
                   ingestorVars, recorderVars, guiVars>>

\* The main window is closed and app.exec_() returns.  The close event goes
\* to the top-level window; no CameraWidget.closeEvent runs.
ExecExit ==
    /\ app_pc = "exec"
    /\ app_pc' = "exited"
    /\ UNCHANGED <<rtsp_cameras, widgets, finalize_log, cfgVars, pollerVars, histVars,
                   ingestorVars, recorderVars, guiVars>>

\* ApplicationManager.run, lines 38-45: camera_controller.finalize_all_recorders()
\* is looked up on a CameraController, which defines __init__ and
\* setup_cameras only: AttributeError, caught and logged, and run returns.
RunFinalize ==
    /\ app_pc = "exited"
    /\ finalize_log' = "error"
    /\ app_pc' = "returned"
    /\ UNCHANGED <<rtsp_cameras, widgets, cfgVars, pollerVars, histVars,
                   ingestorVars, recorderVars, guiVars>>

NextApp ==
    \/ MainWindowInit
    \/ ManagerInit
    \/ RunExec
    \/ FirstFrame
    \/ ExecExit
    \/ RunFinalize

InitApplication ==
    /\ InitPoller /\ InitIngestor /\ InitRecorder /\ InitApp /\ InitGui /\ PollerSmallest
    /\ rotation_minutes = InitRotation(60)
    /\ r_now = 600
    /\ selected_data_points = <<>>

SpecApp == InitApplication /\ [][NextApp]_vars

\* The ingestor alone, its thread scheduled fairly, with the widget's thread
\* taking the queued frames; the poller stays as constructed.
NextIngestor ==
    \/ OuterExit
    \/ OpenFail
    \/ OpenSuccess
    \/ FrameRead
    \/ ReadFail
    \/ InnerExit
    \/ Release
    \/ RetrySleep
    \/ StreamStopRequest
    \/ StreamStopReturn
    \/ DeliverFrame

SpecIngestor == InitCancel /\ [][NextIngestor]_vars /\ WF_vars(IngestorStep)

(***************************************************************************)
(* Properties of the poller.                                               *)
(***************************************************************************)
\* The outcomes of a poll cycle that publish a snapshot.
PublishOps == {"ok", "soft", "hard", "connect_fail"}

\* C1: every snapshot the poller publishes, whichever of success, soft
\* failure, hard failure or failed connect published it, has exactly count
\* entries and its keys are exactly 1..count.
C1_SnapshotKeys ==
    lastOp \in PublishOps =>
        /\ DOMAIN snapshot = 1..count
        /\ Cardinality(DOMAIN snapshot) = count

\* A hard failure after real values were read, with the largest count.
C1_Witness ==
    /\ lastOp = "hard"
    /\ regs # <<>>
    /\ count = MaxCount
    /\ DOMAIN snapshot = 1..count

\* C2: the snapshot published on the fail_threshold-th consecutive soft
\* failure, and on every further one, is all-Unavailable; every successful
\* read, so also the first after that, publishes exactly the values just
\* read for every index and leaves the failure counter at zero.
C2_ThresholdOffline ==
    /\ (lastOp = "soft" /\ consecSoft >= fail_threshold) =>
           /\ AllUnavailable(snapshot)
           /\ DOMAIN snapshot = 1..count
    /\ lastOp = "ok" =>
           /\ \A i \in 1..count : snapshot[i] = regs[i]
           /\ fail_count = 0

\* The threshold is crossed by the second or later soft failure while real
\* values had been read before: they are not published again.
C2_Witness ==
    /\ lastOp = "soft"
    /\ fail_threshold >= 2
    /\ consecSoft = fail_threshold
    /\ regs # <<>>
    /\ p_inst # None
    /\ AllUnavailable(snapshot)

\* C3: in a run of k < fail_threshold soft failures that directly follows a
\* successful read, each poll publishes the snapshot of that read again, with
\* no Unavailable entry; a successful read publishes exactly what it read.
C3_FrozenBelowThreshold ==
    /\ (lastOp = "soft" /\ goodSinceReset /\ consecSoft < fail_threshold) =>
           /\ snapshot = regs
           /\ NoneUnavailable(snapshot)
    /\ lastOp = "ok" => snapshot = regs

\* Two soft failures after a success, one short of the threshold.
C3_Witness ==
    /\ lastOp = "soft"
    /\ goodSinceReset
    /\ consecSoft = 2
    /\ fail_threshold = 3
    /\ snapshot = regs

\* C4: a hard read failure, whatever the failure counter is, closes and drops
\* the handle and publishes an all-Unavailable snapshot in that cycle; the
\* poller is left without a handle, so the next cycle reconnects.
C4_HardFailureOffline ==
    lastOp = "hard" =>
        /\ p_inst = None
        /\ ~port_open
        /\ AllUnavailable(snapshot)
        /\ DOMAIN snapshot = 1..count
        /\ p_pc \in {"backoff", "top", "done"}

\* A hard failure with soft failures counted and real values read before it.
C4_Witness ==
    /\ lastOp = "hard"
    /\ fail_count > 0
    /\ regs # <<>>
    /\ p_pc = "backoff"
    /\ AllUnavailable(snapshot)

\* C5: between reconnect successes the backoff delays never decrease, each is
\* within [start, max] and is min(2 x previous, max); after a reconnect
\* success the backoff is start, so the first delay after it is start.
C5_Backoff ==
    /\ delay # 0 =>
           /\ Msleep(reconnect_backoff_start_s) <= delay
           /\ delay <= Msleep(reconnect_backoff_max_s)
           /\ prevDelay = 0 => delay = Msleep(reconnect_backoff_start_s)
           /\ prevDelay # 0 =>
                  /\ prevDelay <= delay
                  /\ delay = Min(2 * prevDelay, Msleep(reconnect_backoff_max_s))
    /\ lastOp = "connect_ok" => current_backoff_s = reconnect_backoff_start_s

\* A reconnect succeeded, a hard failure followed, and the first backoff sleep
\* after the reconnect has been made, with room for the backoff to grow.
C5_Witness ==
    /\ lastOp = "hard"
    /\ p_pc = "top"
    /\ prevDelay = 0
    /\ delay = Msleep(reconnect_backoff_start_s)
    /\ reconnect_backoff_start_s < reconnect_backoff_max_s
    /\ current_backoff_s > reconnect_backoff_start_s

\* C6, as claimed: an all-Unavailable snapshot is published only on a failed
\* connect, on a hard failure, or on a soft failure with the counter at or
\* above the threshold.
C6_OfflineOnlyWhenClaimed ==
    (lastOp \in PublishOps /\ AllUnavailable(snapshot)) =>
        \/ lastOp \in {"connect_fail", "hard"}
        \/ lastOp = "soft" /\ consecSoft >= fail_threshold

\* C6, amended: ... or on a soft failure below the threshold when no read has
\* succeeded since the cache was last reset (start-up, or the last offline
\* snapshot); a soft failure below the threshold that follows a successful
\* read never publishes an all-Unavailable snapshot.
C6_OfflineOnlyWhenCacheBlank ==
    (lastOp \in PublishOps /\ AllUnavailable(snapshot)) =>
        \/ lastOp \in {"connect_fail", "hard"}
        \/ lastOp = "soft" /\ consecSoft >= fail_threshold
        \/ lastOp = "soft" /\ ~goodSinceReset

\* A soft failure below the threshold, connected, before any successful read.
C6_Witness ==
    /\ lastOp = "soft"
    /\ consecSoft < fail_threshold
    /\ ~goodSinceReset
    /\ p_inst # None
    /\ AllUnavailable(snapshot)

\* C7: run() returns only after a stop was requested: no connect failure,
\* soft failure or hard failure ends the loop.
C7_LoopSurvivesFaults == p_pc = "done" => ~p_running

\* Still looping, no stop requested, after a successful read, a failure that
\* dropped the handle and at least two failed reconnects.
C7_Witness ==
    /\ p_running
    /\ p_pc = "top"
    /\ lastOp = "connect_fail"
    /\ prevDelay # 0
    /\ regs # <<>>

\* C9, as claimed: when stop() has returned, run() has returned and the serial
\* port of the poller's handle is closed.
C9_StopReleasesHandle ==
    p_stop = "returned" => (p_pc = "done" /\ ~port_open)

\* C8: the poller never gives up: once the endpoint opens and reads for good
\* while the poller has no handle (after failed connects or a hard failure),
\* the poller, unless stopped, reconnects and publishes real values.
C8_EventuallyReconnects ==
    (stable /\ p_inst = None) ~>
        \/ ~p_running
        \/ /\ p_inst # None
           /\ lastOp = "ok"
           /\ DOMAIN snapshot = 1..count
           /\ NoneUnavailable(snapshot)

\* The endpoint has come back while the poller, after a successful read, a
\* lost handle and at least two failed reconnects, is in a backoff sleep.
C8_Witness ==
    /\ stable
    /\ p_running
    /\ p_inst = None
    /\ p_pc = "backoff"
    /\ lastOp = "connect_fail"
    /\ prevDelay # 0
    /\ regs # <<>>

\* C27: every published snapshot has all of the indices 1..count and is an
\* object of its own: it is not the poller's cache, and no later poll cycle
\* (the in-place update of the cache by a successful read included) changes it.
C27_SnapshotsImmutable ==
    /\ ~shared
    /\ ~torn
    /\ snapshot # <<>> => DOMAIN snapshot = 1..count

\* A successful read has changed the cache after an earlier snapshot was
\* published, and published the new values.
C27_Witness ==
    /\ moved
    /\ lastOp = "ok"
    /\ snapshot = last_good
    /\ NoneUnavailable(snapshot)
    /\ ~torn

\* C29: a soft failure, below, at or above the threshold, leaves the handle,
\* the open port and the backoff alone, and is followed by the interval sleep
\* and the next read on the same handle, never by the backoff sleep.
C29_SoftKeepsConnection ==
    /\ [](lastOp = "soft" =>
             /\ p_inst = Handle
             /\ port_open
             /\ p_pc \in {"interval", "top", "done"})
    /\ [][consecSoft' = consecSoft + 1 =>
             /\ p_inst # None
             /\ p_inst' = p_inst
             /\ port_open'
             /\ current_backoff_s' = current_backoff_s
             /\ delay' = delay
             /\ p_pc' = "interval"]_vars
    /\ [][(lastOp = "soft" /\ p_pc = "interval" /\ p_pc' # p_pc) =>
             /\ p_pc' = "top"
             /\ p_inst' = p_inst
             /\ current_backoff_s' = current_backoff_s
             /\ delay' = delay]_vars

\* More soft failures in a row than the threshold, the interval sleep made,
\* the handle still open.
C29_Witness ==
    /\ lastOp = "soft"
    /\ consecSoft > fail_threshold
    /\ p_inst = Handle
    /\ port_open
    /\ p_pc = "top"
    /\ AllUnavailable(snapshot)

\* C30, as claimed: no two attempts to open the endpoint are made without a
\* backoff sleep between them.
C30_SleepBetweenOpens == [][(ReconnectOk \/ ReconnectFail) => slept]_vars

\* C30, amended: a failed open in the loop publishes one all-Unavailable
\* snapshot, then the current backoff is slept and doubled up to max, with
\* nothing published, before the next attempt; only the attempt made before
\* the loop publishes nothing and is followed by the next one with no sleep.
C30_BackoffAfterFailedOpenInLoop ==
    /\ [][(ReconnectOk \/ ReconnectFail) => (slept \/ lastOp = "initial")]_vars
    /\ [][ReconnectFail =>
             /\ p_pc' = "backoff"
             /\ AllUnavailable(snapshot')
             /\ DOMAIN snapshot' = 1..count]_vars
    /\ [][(p_pc = "backoff" /\ p_pc' # p_pc) =>
             /\ p_pc' = "top"
             /\ delay' = Msleep(current_backoff_s)
             /\ current_backoff_s' = Min(2 * current_backoff_s, reconnect_backoff_max_s)
             /\ snapshot' = snapshot
             /\ lastOp' = lastOp]_vars
    /\ [](lastOp = "initial" => (snapshot = <<>> /\ ~slept /\ delay = 0))

\* Two failed opens in the loop, each followed by its backoff sleep.
C30_Witness ==
    /\ lastOp = "connect_fail"
    /\ slept
    /\ p_pc = "top"
    /\ prevDelay # 0
    /\ delay = Min(2 * prevDelay, Msleep(reconnect_backoff_max_s))
    /\ AllUnavailable(snapshot)

(***************************************************************************)
(* Properties of both workers.                                             *)
(***************************************************************************)
\* C10: cancellation is cooperative and effective: in whatever state a worker
\* is when its stop flag is cleared, its loops see the flag at the top of an
\* iteration and run() returns.
C10_StopTerminates ==
    /\ ~p_running ~> p_pc = "done"
    /\ ~s_running ~> s_pc = "done"

\* Both stops have returned, requested while the poller had read values and
\* the ingestor was streaming frames.
C10_Witness ==
    /\ p_stop = "returned"
    /\ s_stop = "returned"
    /\ p_pc = "done"
    /\ s_pc = "done"
    /\ s_signal = "frame"
    /\ lastOp = "ok"

(***************************************************************************)
(* Properties of the ingestor.                                             *)
(***************************************************************************)
\* C11: an ingestor whose opens never succeed and that is not stopped emits
\* stream_failed, exactly once, not before 60 seconds have elapsed since its
\* first failed open, and then its run() has returned: no further open.
C11_FailsOnceAfterBudget ==
    /\ [](failedEmits <= 1)
    /\ []((s_signal = "failed" /\ ~everOpened) =>
             /\ failedEmits = 1
             /\ s_pc = "done"
             /\ firstFailAt # NoStartTime
             /\ clock - firstFailAt >= Budget)
    /\ <>(everOpened \/ ~s_running \/ s_signal = "failed")

\* Given up with no open ever succeeded and no stop requested.
C11_Witness ==
    /\ s_signal = "failed"
    /\ ~everOpened
    /\ s_running
    /\ s_pc = "done"
    /\ failedEmits = 1

\* C12: stream_failed is emitted only when more than the budget has elapsed
\* since the timer was started and no open has succeeded since then; every
\* successful open clears the timer.
C12_FailedOnlyAfterBudget ==
    /\ failedEmits > 0 =>
           /\ start_time # NoStartTime
           /\ clock - start_time > Budget
           /\ ~openedSinceTimer
    /\ start_time # NoStartTime => ~openedSinceTimer
    /\ s_pc = "inner" => start_time = NoStartTime

\* Given up after the source had opened earlier: the timer that ran out was
\* started after that open.
C12_Witness ==
    /\ s_signal = "failed"
    /\ everOpened
    /\ ~openedSinceTimer
    /\ clock - start_time > Budget

\* C13: Failed is terminal: once stream_failed has been emitted the worker
\* emits no frame, no reconnecting and no second stream_failed, opens nothing
\* and stays returned.
C13_FailedIsTerminal ==
    [][failedEmits > 0 =>
          /\ s_pc = "done"
          /\ s_pc' = "done"
          /\ s_signal' = s_signal
          /\ s_frame' = s_frame
          /\ failedEmits' = failedEmits
          /\ caps' = caps
          /\ cap_open' = cap_open
          /\ clock' = clock]_vars

\* Given up after having streamed frames, and stop() has since returned.
C13_Witness ==
    /\ failedEmits = 1
    /\ s_signal = "failed"
    /\ everOpened
    /\ s_stop = "returned"

\* C14: the ingestor never holds more than one open capture handle, and when
\* run() has returned, so when stop() returns, every handle it opened has
\* been released.
C14_HandlesReleased ==
    /\ caps <= 1
    /\ caps = (IF cap_open THEN 1 ELSE 0)
    /\ s_pc \in {"outer", "sleep", "done"} => caps = 0
    /\ s_stop = "returned" => (s_pc = "done" /\ caps = 0)

\* stop() has returned for a worker that was stopped while streaming.
C14_Witness ==
    /\ s_stop = "returned"
    /\ s_signal = "frame"
    /\ everOpened
    /\ caps = 0

\* C15, as claimed: at most one frame that was emitted has not yet been
\* handled by update_video_frame (and so written by the recorder).
C15_AtMostOnePending == pending <= 1

\* C28, as claimed: the reconnection-budget timer is only ever started at a
\* failed open, never at a mid-stream read failure.
C28_TimerFromFailedOpen == start_time # NoStartTime => timerFrom = "open"

\* C28, amended: the timer runs from the first failure since the last
\* successful open, be it a failed open or the loss of the stream after a
\* failed read while still running; the budget is measured from that instant.
C28_TimerFromFirstFailure ==
    /\ start_time # NoStartTime <=> timerFrom \in {"open", "read"}
    /\ start_time # NoStartTime => start_time = lossAt
    /\ timerFrom = "read" => everOpened
    /\ failedEmits > 0 => clock - lossAt > Budget

\* Given up on a timer that was started by a failed read, after more than one
\* failed open.
C28_Witness ==
    /\ timerFrom = "read"
    /\ s_signal = "failed"
    /\ start_time = lossAt
    /\ clock - lossAt > Budget + RetryDelay

(***************************************************************************)
(* Properties of the recorder.                                             *)
(***************************************************************************)
\* The segments opened by the last call of write_frame.
OpenedSegs == {r_ev.segs[i] : i \in DOMAIN r_ev.segs}

\* start + rotation_minutes falls on a later calendar day than start.
CrossesMidnight(start) == Date(start + rotation_minutes) > Date(start)

\* C16, as claimed: every segment that follows another one in a session
\* starts at the planned end of the one before, except that after a segment
\* truncated to day-end the next one starts fresh on the next day.
C16_ContiguousSegments ==
    \A g \in OpenedSegs :
        g.after # NoSeg =>
            IF CrossesMidnight(g.after.start)
            THEN Date(g.start) = Date(g.after.start) + 1
            ELSE g.start = g.after.end

\* C17, as claimed: a call of write_frame with no segment open opens one
\* segment, from the frame's arrival time to that time plus rotation_minutes
\* (capped at day-end), and does not rotate.
C17_FirstFrameOpensOneSegment ==
    (r_ev.op = "write" /\ ~r_ev.hadWriter) =>
        /\ Len(r_ev.segs) = 1
        /\ r_ev.segs[1].start = r_ev.at
        /\ r_ev.segs[1].end = CapAtDayEnd(r_ev.at, r_ev.at + rotation_minutes)
        /\ current_start = r_ev.at

\* C18: every segment opened, first of a session or by rotation, ends at its
\* start plus rotation_minutes, or at 23:59 of the start day when that sum
\* falls on a later day; its end is never on another day than its start.
C18_EndCappedAtDayEnd ==
    \A g \in OpenedSegs :
        /\ IF CrossesMidnight(g.start)
           THEN HM(g.end) = <<23, 59>>
           ELSE g.end = g.start + rotation_minutes
        /\ Date(g.end) = Date(g.start)

\* A rotation at 23:30 opened a segment truncated to 23:30-23:59, and its
\* file is on disk.
C18_Witness ==
    /\ r_ev.op = "write"
    /\ r_ev.hadWriter
    /\ Len(r_ev.segs) = 1
    /\ CrossesMidnight(r_ev.segs[1].start)
    /\ r_ev.segs[1].start < r_ev.segs[1].end
    /\ r_ev.segs[1].after.end = r_ev.segs[1].start
    /\ video_writer = "open"
    /\ Path(r_now, current_start, current_end) \in disk

\* C19, as claimed: with rotation_minutes = 60 and a first frame at 23:30 the
\* first segment ends at 23:59, and the first frame of the next day opens a
\* segment that starts at that frame's arrival time.
C19_ResumesNextDay ==
    (r_ev.op = "write" /\ rotation_minutes = 60 /\ HM(r_ev.first) = <<23, 30>>) =>
        /\ ~r_ev.hadWriter => HM(current_end) = <<23, 59>>
        /\ (/\ r_ev.hadWriter
            /\ Date(r_ev.prevAt) = Date(r_ev.first)
            /\ Date(r_ev.at) = Date(r_ev.first) + 1) =>
               /\ r_ev.segs # <<>>
               /\ current_start = r_ev.at

C21_FailedWriterSkipsToBoundary ==
    /\ (r_ev.op = "write" /\ r_ev.was = "failed") =>
           IF r_ev.at < r_ev.wasEnd
           THEN /\ r_ev.segs = <<>>
                /\ ~r_ev.wrote
                /\ video_writer = "failed"
                /\ current_end = r_ev.wasEnd
                /\ disk = r_ev.files
           ELSE /\ Len(r_ev.segs) = 1
                /\ r_ev.segs[1].start = r_ev.wasEnd
                /\ r_ev.segs[1].after.end = r_ev.wasEnd
    /\ (r_ev.op = "write" /\ ~r_ev.wrote) => video_writer = "failed"

\* The writer failed for a segment, and the first frame at its planned end
\* opened the next segment and was written.
C21_Witness ==
    /\ r_ev.op = "write"
    /\ r_ev.was = "failed"
    /\ r_ev.at >= r_ev.wasEnd
    /\ Len(r_ev.segs) = 1
    /\ r_ev.segs[1].start < r_ev.segs[1].end
    /\ video_writer = "open"
    /\ r_ev.wrote

\* The checked data points among the first k of the selection.
CheckedUpTo(k) == {j \in 1..k : selected_data_points[j].checked}

\* C22: a written frame carries one line for each checked data point, in the
\* order of the selection, none for an unchecked one, and the line of index i
\* shows the value at i of the snapshot last received before the write, or
\* Unavailable when none was received or i is not in it.
C22_OverlayFromLatestSnapshot ==
    r_ev.wrote =>
        LET lines == r_ev.written.lines
        IN  /\ r_ev.written.label
            /\ Len(lines) = Cardinality(CheckedUpTo(Len(selected_data_points)))
            /\ \A k \in DOMAIN selected_data_points :
                  selected_data_points[k].checked =>
                      LET line == lines[Cardinality(CheckedUpTo(k))]
                          i == selected_data_points[k].index
                      IN  /\ line.index = i
                          /\ line.value = IF i \in DOMAIN r_ev.snap
                                          THEN r_ev.snap[i] ELSE Unavailable

\* A frame written with two checked points in the order 2, 1: index 2 is not
\* in the snapshot received, index 1 shows the register value received.
C22_Witness ==
    /\ r_ev.wrote
    /\ Len(r_ev.written.lines) = 2
    /\ r_ev.written.lines[1] = [index |-> 2, value |-> Unavailable]
    /\ r_ev.written.lines[2] = [index |-> 1, value |-> 1]
    /\ latest_values = r_ev.snap

\* C23: write_frame leaves the buffer handed to it as it was; the label and
\* the data-point lines are on the frame that is written only.
C23_FrameBufferUntouched ==
    r_ev.op = "write" =>
        /\ r_ev.handed = RawFrame
        /\ r_ev.wrote => r_ev.written.label

\* A frame was written with a label and a data-point line, and then shown.
C23_Witness ==
    /\ r_ev.wrote
    /\ r_ev.written.lines # <<>>
    /\ r_ev.handed = RawFrame
    /\ r_ev.shown

\* C24: every frame that reaches update_video_frame goes through write_frame
\* in that call, refreshed on the display or not; the display is refreshed
\* exactly when 0.1 s or more have passed since the last refresh.
C24_RecordingNotThrottled ==
    r_ev.op = "write" =>
        /\ r_ev.recorded
        /\ r_ev.at = r_now
        /\ r_ev.wrote <=> video_writer = "open"
        /\ r_ev.shown <=> r_ev.elapsed >= UiPeriod
        /\ ~r_ev.shown => ui_since = r_ev.elapsed

\* A frame 0.05 s after a refresh: written, not shown.
C24_Witness ==
    /\ r_ev.op = "write"
    /\ ~r_ev.shown
    /\ r_ev.elapsed = 1
    /\ r_ev.recorded
    /\ r_ev.wrote

(***************************************************************************)
(* Properties of the application.                                          *)
(***************************************************************************)
\* The widgets created for camera n.
WidgetsOf(n) == {w \in DOMAIN widgets : widgets[w].name = n}

\* C25, as claimed: once the application is started, each camera name has
\* exactly one poller, at most one ingestor and exactly one recorder.
C25_OneWorkerSetPerUnit ==
    app_pc \in {"managed", "exec"} =>
        \A n \in Cameras :
            /\ Cardinality({w \in WidgetsOf(n) : widgets[w].poller}) = 1
            /\ Cardinality({w \in WidgetsOf(n) : widgets[w].stream}) <= 1
            /\ Cardinality(WidgetsOf(n)) = 1

\* C26, as claimed: when run() returns no recorder is left with an open
\* segment.
C26_RecordersFinalizedAtExit ==
    app_pc = "returned" => \A w \in DOMAIN widgets : widgets[w].writer = "none"

(***************************************************************************)
(* CameraWidget.configure_camera: the workers are replaced when the rtsp   *)
(* link or the serial port changes.  The handler runs on the widget's      *)
(* thread, which blocks in each worker's stop() while both workers run on. *)
(***************************************************************************)
\* QThread.wait() in stop (modbus_handler.py line 80, rtsp_handler.py line
\* 77): it returns when the thread's run() has returned
WaitReturnsAtOnce(pc) == TRUE
WaitReturns(pc) == pc = "done"

\* configure_camera, lines 289-290 and 317-319: the dialog was accepted with
\* another rtsp link (empty or not), and perhaps another port;
\* stream_thread.stop() clears the flag and blocks in wait().
ConfigureStopStream ==
    /\ gui_pc = "idle"
    /\ \E port_changed, link \in BOOLEAN :
          gui_todo' = [rtsp |-> TRUE, port |-> port_changed, link |-> link]
    /\ s_running' = FALSE
    /\ s_stop' = "waiting"
    /\ gui_pc' = "stream_wait"
    /\ UNCHANGED <<app_pc, rtsp_cameras, widgets, finalize_log, orphans,
                   recorderVars, cfgVars, pollerVars, histVars, s_pc, cap_open,
                   start_time, clock, s_signal, s_frame, pending, caps,
                   everOpened, openedSinceTimer, failedEmits, firstFailAt,
                   timerFrom, lossAt>>

\* configure_camera, line 320, and start_camera_stream, lines 348-357: stop()
\* has returned; with a link a new RTSPStreamThread is built and started,
\* without one the finished thread is left in self.stream_thread.  The frames
\* already queued for the widget stay queued.
ConfigureStartStream ==
    /\ gui_pc = "stream_wait"
    /\ WaitReturns(s_pc)
    /\ IF gui_todo.link
       THEN /\ s_running' = TRUE
            /\ s_pc' = "outer"
            /\ s_stop' = "idle"
            /\ cap_open' = FALSE
            /\ start_time' = NoStartTime
            /\ clock' = 0
            /\ s_signal' = "none"
            /\ s_frame' = 0
            /\ everOpened' = FALSE
            /\ openedSinceTimer' = FALSE
            /\ timerFrom' = "none"
            /\ lossAt' = NoStartTime
            /\ failedEmits' = 0
            /\ firstFailAt' = NoStartTime
            /\ orphans' = [orphans EXCEPT
                             !.stream = IF s_pc = "done" THEN @ ELSE @ + 1]
       ELSE /\ s_stop' = "returned"
            /\ UNCHANGED <<s_running, s_pc, cap_open, start_time, clock, s_signal,
                           s_frame, everOpened, openedSinceTimer, timerFrom,
                           lossAt, failedEmits, firstFailAt, orphans>>
    /\ gui_pc' = IF gui_todo.port THEN "modbus_stop" ELSE "configured"
    /\ UNCHANGED <<app_pc, rtsp_cameras, widgets, finalize_log, gui_todo,
                   recorderVars, cfgVars, pollerVars, histVars, pending, caps>>

\* configure_camera, lines 290 and 322-324: the port changed (after the rtsp
\* link was handled, or alone); modbus_thread.stop() clears the flag and
\* blocks in wait().
ConfigureStopModbus ==
    /\ gui_pc \in {"idle", "modbus_stop"}
    /\ gui_todo' = IF gui_pc = "idle"
                   THEN [rtsp |-> FALSE, port |-> TRUE, link |-> FALSE]
                   ELSE gui_todo
    /\ p_running' = FALSE
    /\ p_stop' = "waiting"
    /\ gui_pc' = "modbus_wait"
    /\ UNCHANGED <<app_pc, rtsp_cameras, widgets, finalize_log, orphans,
                   recorderVars, cfgVars, p_inst, port_open, last_good, fail_count,
                   current_backoff_s, p_pc, snapshot, stable, histVars,
                   ingestorVars>>

\* configure_camera, line 325, and start_modbus_polling, lines 360-382: stop()
\* has returned (the second stop() of lines 361-365 finds the thread finished);
\* a new ModbusReaderThread for the new port is built and started.
ConfigureStartModbus ==
    /\ gui_pc = "modbus_wait"
    /\ WaitReturns(p_pc)
    /\ p_running' = TRUE
    /\ p_inst' = None
    /\ port_open' = FALSE
    /\ last_good' = OfflineSnapshot(count)
    /\ fail_count' = 0
    /\ current_backoff_s' = reconnect_backoff_start_s
    /\ p_pc' = "init"
    /\ p_stop' = "idle"
    /\ snapshot' = <<>>
    /\ lastOp' = "none"
    /\ regs' = <<>>
    /\ consecSoft' = 0
    /\ goodSinceReset' = FALSE
    /\ delay' = 0
    /\ prevDelay' = 0
    /\ slept' = FALSE
    /\ shared' = FALSE
    /\ torn' = FALSE
    /\ moved' = FALSE
    /\ pubs' = 0
    /\ orphans' = [orphans EXCEPT !.poller = IF p_pc = "done" THEN @ ELSE @ + 1]
    /\ gui_pc' = "configured"
    /\ UNCHANGED <<app_pc, rtsp_cameras, widgets, finalize_log, gui_todo,
                   recorderVars, cfgVars, stable, ingestorVars>>

\* configure_camera returns to the event loop.
ConfigureReturn ==
    /\ gui_pc = "configured"
    /\ gui_pc' = "idle"
    /\ gui_todo' = NoTodo
    /\ UNCHANGED <<app_pc, rtsp_cameras, widgets, finalize_log, orphans,
                   recorderVars, cfgVars, pollerVars, histVars, ingestorVars>>

\* One camera widget whose configuration is changed at any time, any number
\* of times, while its two workers run.
NextReconfigure ==
    \/ PollerStep
    \/ IngestorStep
    \/ DeliverFrame
    \/ ConfigureStopStream
    \/ ConfigureStartStream
    \/ ConfigureStopModbus
    \/ ConfigureStartModbus
    \/ ConfigureReturn

SpecReconfigure == InitCancel /\ [][NextReconfigure]_vars

(***************************************************************************)
(* CameraWidget.closeEvent, on the widget's thread, with the ingestor      *)
(* running and its frames queued for the slot update_video_frame.          *)
(***************************************************************************)
\* The slot of frame_received run for a queued frame: the event is taken from
\* the widget's queue when no handler is running and update_video_frame hands
\* the frame to the recorder.
FrameSlot ==
    /\ GuiFree(gui_pc)
    /\ pending > 0
    /\ pending' = pending - 1
    /\ \E dt \in Steps : \E ok1, ok2 \in BOOLEAN : VideoFrameSlot(dt, UiPeriod, ok1, ok2)
    /\ UNCHANGED <<s_running, s_pc, s_stop, cap_open, start_time, clock, s_signal,
                   s_frame, caps, everOpened, openedSinceTimer, failedEmits,
                   firstFailAt, timerFrom, lossAt>>

\* closeEvent, lines 447-448: stream_thread.stop() clears the flag and blocks
\* in wait().
CloseStopStream ==
    /\ gui_pc = "idle"
    /\ s_running' = FALSE
    /\ s_stop' = "waiting"
    /\ gui_pc' = "close_wait"
    /\ UNCHANGED <<app_pc, rtsp_cameras, widgets, finalize_log, gui_todo, orphans,
                   recorderVars, cfgVars, pollerVars, histVars, s_pc, cap_open,
                   start_time, clock, s_signal, s_frame, pending, caps,
                   everOpened, openedSinceTimer, failedEmits, firstFailAt,
                   timerFrom, lossAt>>

\* closeEvent, lines 448-460: the ingestor's run() has returned;
\* modbus_thread.stop(), the gpio cleanups, recorder.stop(), event.accept().
\* The poller's steps between its stop flag and the return of its run() act
\* on the poller only and are taken as one here.
CloseFinish ==
    /\ gui_pc = "close_wait"
    /\ WaitReturns(s_pc)
    /\ s_stop' = "returned"
    /\ p_running' = FALSE
    /\ p_pc' = "done"
    /\ p_stop' = "returned"
    /\ RecorderStopCall
    /\ gui_pc' = "closed"
    /\ UNCHANGED <<gui_todo, orphans, p_inst, port_open, last_good, fail_count,
                   current_backoff_s, snapshot, stable, histVars, s_running, s_pc,
                   cap_open, start_time, clock, s_signal, s_frame, pending, caps,
                   everOpened, openedSinceTimer, failedEmits, firstFailAt,
                   timerFrom, lossAt>>

\* One camera widget that is closed at any time while its ingestor runs.
NextShutdown ==
    \/ IngestorStep
    \/ FrameSlot
    \/ CloseStopStream
    \/ CloseFinish

SpecShutdown == InitCancel /\ [][NextShutdown]_vars

(***************************************************************************)
(* Further properties of the poller's loop.                                *)
(***************************************************************************)
\* C31: when a reconnect succeeds the failure counter is cleared and the
\* bulk read is the poller's next step, in the same iteration, with no
\* backoff or interval sleep between the open and the read; a read that
\* succeeds there publishes the registers it returned.
C31_ReadRightAfterReconnect ==
    /\ [](lastOp = "connect_ok" =>
            /\ p_pc = "read"
            /\ fail_count = 0
            /\ p_inst = Handle
            /\ delay = 0
            /\ ~slept)
    /\ [][(lastOp = "connect_ok" /\ lastOp' # "connect_ok") =>
            /\ lastOp' \in {"ok", "soft", "hard"}
            /\ delay' = 0
            /\ ~slept'
            /\ lastOp' = "ok" =>
                  /\ snapshot' = regs'
                  /\ NoneUnavailable(snapshot')]_vars

\* The reconnect has just succeeded after a failed one: the cache is still
\* the offline snapshot and the read is about to be made.
C31_Witness ==
    /\ lastOp = "connect_ok"
    /\ p_pc = "read"
    /\ fail_count = 0
    /\ AllUnavailable(snapshot)
    /\ snapshot # <<>>

\* C32: an iteration of the loop that runs to its end has published exactly
\* one snapshot, whichever branch it took, and no iteration publishes two.
C32_OnePublicationPerIteration ==
    /\ pubs <= 1
    /\ p_pc \in {"interval", "backoff"} => pubs = 1
    /\ (p_pc = "top" /\ lastOp # "initial") => pubs = 1
    /\ p_pc = "read" => pubs = 0

\* An iteration that reconnected and then read has ended with one snapshot.
C32_Witness ==
    /\ p_pc = "top"
    /\ lastOp = "ok"
    /\ pubs = 1
    /\ delay = 0
    /\ current_backoff_s = reconnect_backoff_start_s
    /\ NoneUnavailable(snapshot)

(***************************************************************************)
(* Further properties of the recorder.                                     *)
(***************************************************************************)
\* C33, as claimed: every segment the recorder opens ends strictly later than
\* it starts, and a rotation opens a segment that starts strictly later than
\* the one it follows.
C33_SegmentsNonEmpty ==
    \A g \in OpenedSegs :
        /\ g.start < g.end
        /\ g.after.start # NoTime => g.after.start < g.start

\* C34, as claimed: a frame is written into a segment whose planned window
\* contains the time of the write.
C34_FrameInsideWindow ==
    r_ev.wrote => (current_start <= r_ev.at /\ r_ev.at < current_end)

\* C35, as claimed: the file a segment is opened on, and the file a stop
\* renames a segment to, is not already the file of an earlier segment.
C35_NoPathReuse ==
    /\ (r_ev.op = "write" /\ r_ev.segs # <<>> /\ video_writer = "open") =>
          Path(r_ev.at, current_start, current_end) \notin r_ev.files
    /\ (r_ev.op = "stop" /\ r_ev.log = "finalized" /\ r_ev.new # r_ev.old) =>
          r_ev.new \notin r_ev.files

\* C36: the recorder never has more than one writer open: a writer that is
\* replaced on rotation has been released, and the only open writer is the
\* one self.video_writer refers to.
C36_AtMostOneWriter ==
    /\ open_writers <= 1
    /\ open_writers = 1 <=> video_writer = "open"

\* A rotation replaced an open writer by another open writer.
C36_Witness ==
    /\ r_ev.op = "write"
    /\ r_ev.was = "open"
    /\ Len(r_ev.segs) = 1
    /\ video_writer = "open"
    /\ open_writers = 1

\* C37: a stop called while no segment is open releases nothing, renames
\* nothing, logs nothing and leaves the recorder as it was.
C37_StopIdempotent ==
    [][(r_ops' = r_ops + 1 /\ r_ev'.op = "stop" /\ video_writer = "none") =>
          /\ video_writer' = "none"
          /\ disk' = disk
          /\ open_writers' = open_writers
          /\ current_start' = current_start
          /\ current_end' = current_end
          /\ rotation_minutes' = rotation_minutes
          /\ latest_values' = latest_values
          /\ r_ev'.log = "none"
          /\ r_ev'.existed = FALSE]_vars

\* A second stop in a row, after a session whose file was finalized.
C37_Witness ==
    /\ r_ev.op = "stop"
    /\ ~r_ev.hadWriter
    /\ video_writer = "none"
    /\ current_start # NoTime
    /\ disk # {}

(***************************************************************************)
(* Properties of the widget's handlers.                                    *)
(***************************************************************************)
\* The threads of a kind whose run() has not returned: the current one and
\* those replaced before they finished.
RunningWorkers(pc, replaced) == replaced + (IF pc = "done" THEN 0 ELSE 1)

\* C38: whatever the sequence of reconfigurations, the widget has at most one
\* poller thread and at most one ingestor thread whose run() has not
\* returned: a worker is replaced only after its stop() has returned.
C38_OneWorkerOfEachKind ==
    /\ RunningWorkers(p_pc, orphans.poller) <= 1
    /\ RunningWorkers(s_pc, orphans.stream) <= 1

\* Both workers have just been replaced by one call of configure_camera: the
\* new ingestor is running and the new poller has not made its first step.
C38_Witness ==
    /\ gui_pc = "configured"
    /\ gui_todo = [rtsp |-> TRUE, port |-> TRUE, link |-> TRUE]
    /\ p_pc = "init"
    /\ p_running
    /\ s_running
    /\ s_pc # "done"
    /\ clock > 0
    /\ orphans = [poller |-> 0, stream |-> 0]

\* C39, as claimed: once closeEvent has stopped the ingestor and then the
\* recorder, the recorder has no open segment in any later state: no queued
\* frame reaches write_frame afterwards and opens a file.
C39_NoSegmentAfterShutdown ==
    gui_pc = "closed" => video_writer # "open"

====
